---- MODULE Spec2Model ----
(***************************************************************************)
(* Model of the dashboard route (GET /api/dashboard): the raw data         *)
(* assembler collectRawData, the agent runner runGeminiAgent, the          *)
(* orchestrator analyzeDataWithGeminiAgents and the handler GET.           *)
(*                                                                         *)
(* Backend texts and JSON values are sequences of lexical tokens: a fence  *)
(* marker, a bracket, a comma, a key with its colon, a string literal, a   *)
(* number literal, null, or a run of prose.  White space is not a token,   *)
(* so String.trim has nothing to remove at this level.  A parsed JSON      *)
(* value is represented by its token sequence.                             *)
(***************************************************************************)
EXTENDS Integers, Sequences, FiniteSets, TLC

VARIABLES
    store,      \* the data store the request reads (unchanged by the request)
    pc,         \* position of GET: "collect", "join", "responded"
    qi,         \* number of executeQuery calls of collectRawData completed
    rawData,    \* the snapshot returned by collectRawData, or NoSnapshot
    agentSt,    \* per agent promise: "idle", "pending", "fulfilled", "rejected"
    agentVal,   \* per agent: the value or the error its promise settled with
    calls,      \* per agent: number of generateContent calls issued
    allSt,      \* the Promise.all promise: "none", "pending", "fulfilled", "rejected"
    response,   \* the NextResponse GET returned, or NoResponse
    queryError, \* the error an executeQuery call threw, or NoError
    muIn,       \* monthly merge: the monthlyUsers rows
    mtIn,       \* monthly merge: the monthlyTests rows
    muOut,      \* monthly merge: combinedMonthlyData, or NotRun
    maIn,       \* weekday translation: the messageActivity rows
    maOut,      \* weekday translation: messageActivityTranslated, or NotRun
    rtTable,    \* effectiveness: the resultados_test table
    efOut,      \* effectiveness: the snapshot's efectividad field, or NotRun
    agentIn,    \* per agent: the data argument of its runGeminiAgent call
    fnIn,       \* a query or function studied alone: the tables or text it reads
    fnOut,      \* its result
    fnOut2,     \* the result of a second run on the same input
    pool,       \* lib/db.js: the module variable pool, NoPool while undefined
    createPoolRuns, \* number of mysql.createPool calls made by the process
    callerPc,   \* per executeQuery call: "idle", "awaiting", "executing", "done", "failed"
    callerConn  \* per executeQuery call: the pool its getConnection promise holds

vars == <<store, pc, qi, rawData, agentSt, agentVal, calls, allSt, response,
          queryError, muIn, mtIn, muOut, maIn, maOut, rtTable, efOut,
          agentIn, fnIn, fnOut, fnOut2, pool, createPoolRuns, callerPc, callerConn>>

poolVars == <<pool, createPoolRuns, callerPc, callerConn>>

reqVars ==
    <<store, pc, qi, rawData, agentSt, agentVal, calls, allSt, response, queryError>>
monthlyVars == <<muIn, mtIn, muOut>>
weeklyVars == <<maIn, maOut>>
efVars == <<rtTable, efOut>>
fnVars == <<fnIn, fnOut, fnOut2>>

-----------------------------------------------------------------------------
(* JSON text as tokens                                                     *)

\* The code-fence markers that the replace call of runGeminiAgent removes.
FenceToks == {"FENCE_JSON", "FENCE"}

\* Object keys, each with its colon.
KeyToks ==
    {"insight:", "score:", "commonPatterns:", "keyInsights:",
     "recommendedActions:", "other:"}

\* String literals: "s" is any string the backend wrote, the others are the
\* literals of the catch block of the orchestrator.
StrToks ==
    {"s", "Error al analizar efectividad", "Error al analizar patrones",
     "Error al analizar correlaciones", "Error al analizar tendencias",
     "Error al generar recomendaciones", "Error al analizar respuestas"}

\* Number literals: "n" is any number the backend wrote, "0" the score of the catch block.
NumToks == {"n", "0"}

ScalarToks == StrToks \cup NumToks \cup {"null"}

RECURSIVE ValueEnd(_, _)
RECURSIVE ElemsEnd(_, _, _)
RECURSIVE MembersEnd(_, _, _)

\* The index just past the JSON value that starts at t[i], or 0 when no JSON
\* value starts there.
ValueEnd(t, i) ==
    IF i > Len(t) THEN 0
    ELSE IF t[i] \in ScalarToks THEN i + 1
    ELSE IF t[i] = "[" THEN ElemsEnd(t, i + 1, TRUE)
    ELSE IF t[i] = "{" THEN MembersEnd(t, i + 1, TRUE)
    ELSE 0

\* The index just past the "]" closing the array whose next element (or, when
\* first, whose "]") is at t[i]; 0 when the array is malformed.
ElemsEnd(t, i, first) ==
    IF i > Len(t) THEN 0
    ELSE IF first /\ t[i] = "]" THEN i + 1
    ELSE LET j == ValueEnd(t, i)
         IN  IF j = 0 \/ j > Len(t) THEN 0
             ELSE IF t[j] = "]" THEN j + 1
             ELSE IF t[j] = "," THEN ElemsEnd(t, j + 1, FALSE)
             ELSE 0

\* The same for the members of an object.
MembersEnd(t, i, first) ==
    IF i > Len(t) THEN 0
    ELSE IF first /\ t[i] = "}" THEN i + 1
    ELSE IF t[i] \notin KeyToks THEN 0
    ELSE LET j == ValueEnd(t, i + 1)
         IN  IF j = 0 \/ j > Len(t) THEN 0
             ELSE IF t[j] = "}" THEN j + 1
             ELSE IF t[j] = "," THEN MembersEnd(t, j + 1, FALSE)
             ELSE 0

\* JSON.parse succeeds on t: t is exactly one JSON value.
IsJSON(t) == Len(t) > 0 /\ ValueEnd(t, 1) = Len(t) + 1

\* The replace of every fence marker by the empty string, then trim.
StripFences(text) == SelectSeq(text, LAMBDA tok : tok \notin FenceToks)

\* The regular-expression match of runGeminiAgent (an opening brace, any
\* characters, a closing brace): the greedy match runs from the first "{"
\* to the last "}"; <<>> stands for no match (a match is never empty).
BraceMatch(t) ==
    LET opens == {i \in 1..Len(t) : t[i] = "{"}
        closes == {i \in 1..Len(t) : t[i] = "}"}
    IN  IF opens = {} \/ closes = {} THEN <<>>
        ELSE LET f == CHOOSE i \in opens : \A k \in opens : i <= k
                 l == CHOOSE i \in closes : \A k \in closes : i >= k
             IN  IF l > f THEN SubSeq(t, f, l) ELSE <<>>

\* The parse of runGeminiAgent on the text of the backend: ok with the parsed value
\* (the promise is fulfilled), or not ok (the function throws).
ParseAgentText(text) ==
    LET analysisText == StripFences(text)
        jsonMatch == BraceMatch(analysisText)
    IN  IF IsJSON(analysisText) THEN [ok |-> TRUE, value |-> analysisText]
        ELSE IF jsonMatch # <<>> /\ IsJSON(jsonMatch)
             THEN [ok |-> TRUE, value |-> jsonMatch]
        ELSE [ok |-> FALSE, value |-> <<>>]

-----------------------------------------------------------------------------
(* SQL values and the row transforms of collectRawData                     *)

\* A nullable SQL number is a tuple: <<>> is NULL, <<n>> the number n.
\* Numbers with one decimal place (ROUND(x, 1)) are held in tenths.
NULL == <<>>

Num(n) == <<n>>

MaxOf(S) == CHOOSE x \in S : \A y \in S : y <= x

MinOf(S) == CHOOSE x \in S : \A y \in S : x <= y

\* a / b rounded half up to an integer, for a >= 0 and b > 0.
RoundDiv(a, b) == (2 * a + b) \div (2 * b)

\* userCount[0]?.total || 0
FirstTotalOrZero(rows) ==
    IF Len(rows) = 0 THEN 0
    ELSE IF rows[1].total = 0 THEN 0
    ELSE rows[1].total

\* Mutant of CombineMonthly: the tests row is taken by position, not by month key.
CombineMonthlyByIndex(monthlyUsers, monthlyTests) ==
    [i \in 1..Len(monthlyUsers) |->
        [month |-> monthlyUsers[i].month, name |-> monthlyUsers[i].name,
         usuarios |-> monthlyUsers[i].usuarios,
         tests |-> IF i <= Len(monthlyTests) THEN monthlyTests[i].tests ELSE 0]]

\* monthlyUsers.map(month => ({...month, tests: matchingTests ? matchingTests.tests : 0}))
\* where matchingTests is monthlyTests.find(test => test.month === month.month),
\* the first row of monthlyTests with the same month key.
CombineMonthly(monthlyUsers, monthlyTests) ==
    [i \in 1..Len(monthlyUsers) |->
        LET month == monthlyUsers[i]
            hits == {k \in 1..Len(monthlyTests) : monthlyTests[k].month = month.month}
        IN  [month |-> month.month, name |-> month.name, usuarios |-> month.usuarios,
             tests |-> IF hits = {} THEN 0 ELSE monthlyTests[MinOf(hits)].tests]]

\* The table diasTraducidos.
DiasTraducidos ==
    [d \in {"Mon", "Tue", "Wed", "Thu", "Fri", "Sat", "Sun"} |->
        CASE d = "Mon" -> "Lun"
          [] d = "Tue" -> "Mar"
          [] d = "Wed" -> "Mié"
          [] d = "Thu" -> "Jue"
          [] d = "Fri" -> "Vie"
          [] d = "Sat" -> "Sáb"
          [] d = "Sun" -> "Dom"]

\* Mutant of TranslateDia: the lookup is used without its default.
TranslateDiaNoDefault(dia) ==
    IF dia \in DOMAIN DiasTraducidos THEN DiasTraducidos[dia] ELSE "undefined"

\* diasTraducidos[day.dia] || day.dia
TranslateDia(dia) ==
    IF dia \in DOMAIN DiasTraducidos THEN DiasTraducidos[dia] ELSE dia

\* messageActivity.map(day => ({...day, dia: diasTraducidos[day.dia] || day.dia}))
TranslateDays(messageActivity) ==
    [i \in 1..Len(messageActivity) |->
        [dia |-> TranslateDia(messageActivity[i].dia),
         mensajes |-> messageActivity[i].mensajes,
         chatbots |-> messageActivity[i].chatbots]]

\* The span in days the HAVING clause of user_tests requires.
MinSpanDays == 30

\* The effectiveness query on the table resultados_test (a sequence of rows
\* [usuario_id, fecha, ansiedad_score], fecha a day number, ansiedad_score
\* nullable).  user_tests keeps the users whose first and last test dates are
\* at least MinSpanDays apart; scores joins each of them with every test row on
\* the first date and every test row on the last date; the outer SELECT
\* aggregates scores and, having no GROUP BY, always returns exactly one row.
\* SUM over no rows is NULL, and so is a division by zero.  ROUND(x, 1)
\* rounds half up; the exact-value division carries at least nine decimal
\* places, which for the cohort sizes here rounds as the exact quotient does.
EfectividadQuery(tbl) ==
    LET idx == 1..Len(tbl)
        fechas(u) == {tbl[i].fecha : i \in {k \in idx : tbl[k].usuario_id = u}}
        user_tests ==
            {u \in {tbl[i].usuario_id : i \in idx} :
                MaxOf(fechas(u)) - MinOf(fechas(u)) >= MinSpanDays}
        scores ==
            {p \in idx \X idx :
                /\ tbl[p[1]].usuario_id \in user_tests
                /\ tbl[p[2]].usuario_id = tbl[p[1]].usuario_id
                /\ tbl[p[1]].fecha = MinOf(fechas(tbl[p[1]].usuario_id))
                /\ tbl[p[2]].fecha = MaxOf(fechas(tbl[p[1]].usuario_id))}
        better ==
            {p \in scores :
                /\ tbl[p[1]].ansiedad_score # NULL
                /\ tbl[p[2]].ansiedad_score # NULL
                /\ tbl[p[2]].ansiedad_score[1] < tbl[p[1]].ansiedad_score[1]}
        total == Cardinality(scores)
        mejoraron == Cardinality(better)
    IN  <<[total_usuarios |-> total,
           mejoraron |-> IF total = 0 THEN NULL ELSE Num(mejoraron),
           porcentaje_mejora |->
               IF total = 0 THEN NULL
               ELSE Num(RoundDiv(mejoraron * 1000, total))]>>

\* efectividad[0] || { porcentaje_mejora: 0 }
EfectividadField(rows) ==
    IF Len(rows) = 0 THEN [porcentaje_mejora |-> Num(0)] ELSE rows[1]

RECURSIVE SumSeq(_)

\* The sum of a sequence of integers.
SumSeq(q) == IF Len(q) = 0 THEN 0 ELSE q[1] + SumSeq(Tail(q))

\* The last activity of a user as an age in months before NOW(): GREATEST of
\* the dates is the smallest age; a NULL chat or test date is replaced by
\* 1970-01-01 (IFNULL), which is never the greatest.
UltimaActividad(r) ==
    MinOf({r.updated}
          \cup (IF r.chat = NULL THEN {} ELSE {r.chat[1]})
          \cup (IF r.test = NULL THEN {} ELSE {r.test[1]}))

\* Mutant of RetencionQuery: usuarios_mes_anterior counts the users whose
\* last activity lies in the month before the last one only.
RetencionQueryPriorMonthOnly(tbl) ==
    LET idx == 1..Len(tbl)
        este == Cardinality({i \in idx : UltimaActividad(tbl[i]) <= 1})
        anterior == Cardinality({i \in idx : UltimaActividad(tbl[i]) = 2})
    IN  <<[promedio_meses_uso |-> NULL,
           usuarios_activos_este_mes |-> este,
           usuarios_activos_mes_anterior |-> anterior,
           tasa_retencion |->
               IF anterior = 0 THEN NULL ELSE Num(RoundDiv(este * 1000, anterior))]>>

\* The retention query on the per-user rows of user_activity (tbl is a
\* sequence of rows [created, updated, chat, test]: the ages in months, before
\* NOW(), of users.created_at, MAX(users.updated_at), MAX(chats.updated_at)
\* and MAX(rt.fecha), the last two NULL for a user without chats or tests).
\* meses is TIMESTAMPDIFF(MONTH, primera_actividad, ultima_actividad);
\* usuarios_este_mes counts the last activities within one month,
\* usuarios_mes_anterior those within two months.  The outer SELECT
\* aggregates without GROUP BY and always returns exactly one row; AVG over
\* no rows is NULL and so is a division by zero.
RetencionQuery(tbl) ==
    LET idx == 1..Len(tbl)
        meses == [i \in idx |-> tbl[i].created - UltimaActividad(tbl[i])]
        este == Cardinality({i \in idx : UltimaActividad(tbl[i]) <= 1})
        anterior == Cardinality({i \in idx : UltimaActividad(tbl[i]) <= 2})
    IN  <<[promedio_meses_uso |->
               IF Len(tbl) = 0 THEN NULL
               ELSE Num(RoundDiv(SumSeq(meses) * 10, Len(tbl))),
           usuarios_activos_este_mes |-> este,
           usuarios_activos_mes_anterior |-> anterior,
           tasa_retencion |->
               IF anterior = 0 THEN NULL ELSE Num(RoundDiv(este * 1000, anterior))]>>

\* The new-users query on the users table (tbl is a sequence of rows
\* [createdMonth, gender]; createdMonth is the number of calendar months
\* between the month of created_at and the month of NOW(): 0 is the current
\* calendar month, 1 the previous one).  The lower limit of the WHERE clause
\* is DATE_FORMAT(NOW() - INTERVAL 1 MONTH, first-of-month): the first day of
\* the month that holds the instant one month ago, which is the previous
\* calendar month.
NewUsersThisMonthQuery(tbl) ==
    <<[total |-> Cardinality({i \in 1..Len(tbl) : tbl[i].createdMonth <= 1})]>>

\* The label of a gender group: IFNULL(gender, the unspecified label).  A
\* gender is NULL or a one-element tuple holding the stored string.
UnspecifiedLabel == "No especificado"

GenderName(g) == IF g = NULL THEN UnspecifiedLabel ELSE g[1]

\* The gender query: GROUP BY gender groups on the stored column, NULL being
\* one group and the empty string another; each group is labelled by IFNULL
\* and counted.  Without ORDER BY the order of the rows is unspecified, so the
\* result is given as the set of its rows.
GenderQuery(tbl) ==
    {[name |-> GenderName(g),
      value |-> Cardinality({i \in 1..Len(tbl) : tbl[i].gender = g})] :
        g \in {tbl[i].gender : i \in 1..Len(tbl)}}

\* LIMIT 3 of the usage-pattern query.
TopHours == 3

\* The results the usage-pattern query may return (msgs gives, per hour of
\* the day, the number of chat messages of the last 30 days).  There is one
\* group per hour with messages; ORDER BY mensajes DESC fixes the order of
\* groups with different counts only, and the order among groups with equal
\* counts is unspecified in SQL, so every descending arrangement is a
\* possible result; LIMIT keeps its first TopHours rows.
PatronesUsoResults(msgs) ==
    LET groups == {h \in DOMAIN msgs : msgs[h] > 0}
        k == MinOf({TopHours, Cardinality(groups)})
    IN  {[i \in 1..k |-> [hora |-> f[i], mensajes |-> msgs[f[i]]]] :
            f \in {g \in [1..k -> groups] :
                     /\ \A i, j \in 1..k : i < j =>
                            (g[i] # g[j] /\ msgs[g[i]] >= msgs[g[j]])
                     /\ \A h \in groups \ {g[i] : i \in 1..k} :
                            \A i \in 1..k : msgs[h] <= msgs[g[i]]}}

-----------------------------------------------------------------------------
(* The data store and the queries of collectRawData                        *)

\* The executeQuery calls of collectRawData, in program order.
QueryNames ==
    <<"userCount", "newUsersThisMonth", "testCount", "messageCount",
      "anxietyLevels", "depressionLevels", "ageDistribution",
      "genderDistribution", "monthlyUsers", "monthlyTests", "messageActivity",
      "correlationData", "efectividad", "retencion", "patronesUso",
      "respuestasExtra", "chatAnalytics">>

NumQueries == Len(QueryNames)

\* A store with no rows in any table.  Every COUNT(*) is 0 and every grouped
\* query returns no rows.
EmptyStore ==
    [userCount |-> <<[total |-> 0]>>,
     newUsersThisMonth |-> <<[total |-> 0]>>,
     testCount |-> <<[total |-> 0]>>,
     messageCount |-> <<[total |-> 0]>>,
     anxietyLevels |-> <<>>,
     depressionLevels |-> <<>>,
     ageDistribution |-> <<>>,
     genderDistribution |-> <<>>,
     monthlyUsers |-> <<>>,
     monthlyTests |-> <<>>,
     messageActivity |-> <<>>,
     correlationData |-> <<>>,
     resultados_test |-> <<>>,
     user_activity |-> <<>>,
     patronesUso |-> <<>>,
     respuestasExtra |-> <<>>,
     chatAnalytics |-> <<>>]

\* A store with two users, three tests and five messages.
SampleStore ==
    [userCount |-> <<[total |-> 2]>>,
     newUsersThisMonth |-> <<[total |-> 1]>>,
     testCount |-> <<[total |-> 3]>>,
     messageCount |-> <<[total |-> 5]>>,
     anxietyLevels |-> <<[name |-> "Moderada", value |-> 2], [name |-> "Leve", value |-> 1]>>,
     depressionLevels |-> <<[name |-> "Leve", value |-> 3]>>,
     ageDistribution |-> <<[name |-> "18-24", count |-> 2]>>,
     genderDistribution |-> <<[name |-> "No especificado", value |-> 2]>>,
     monthlyUsers |-> <<[month |-> 1, name |-> "Jan", usuarios |-> 1],
                        [month |-> 2, name |-> "Feb", usuarios |-> 1]>>,
     monthlyTests |-> <<[month |-> 2, tests |-> 3]>>,
     messageActivity |-> <<[dia |-> "Mon", mensajes |-> 3, chatbots |-> 1],
                           [dia |-> "Sat", mensajes |-> 2, chatbots |-> 1]>>,
     correlationData |-> <<[score |-> "6-10", promedio_mensajes |-> 5]>>,
     resultados_test |-> <<[usuario_id |-> 1, fecha |-> 0, ansiedad_score |-> Num(8)],
                           [usuario_id |-> 1, fecha |-> 40, ansiedad_score |-> Num(3)],
                           [usuario_id |-> 2, fecha |-> 40, ansiedad_score |-> NULL]>>,
     user_activity |-> <<[created |-> 3, updated |-> 3, chat |-> Num(0), test |-> Num(1)],
                          [created |-> 1, updated |-> 1, chat |-> NULL, test |-> Num(1)]>>,
     patronesUso |-> <<[hora |-> 9, mensajes |-> 5]>>,
     respuestasExtra |-> <<[respuestas_extra |-> "s"]>>,
     chatAnalytics |-> <<[chat_id |-> 1, chat_name |-> "chat", user_gender |-> "F",
                          user_age |-> Num(20), message_count |-> 5,
                          max_ansiedad |-> Num(8), max_depresion |-> NULL]>>]

Stores == {EmptyStore, SampleStore}

\* The rows executeQuery returns for the named query on store s.
QueryRows(s, q) ==
    IF q = "efectividad" THEN EfectividadQuery(s.resultados_test)
    ELSE IF q = "retencion" THEN RetencionQuery(s.user_activity)
    ELSE s[q]

\* retencion[0] || { promedio_meses_uso: 0, tasa_retencion: 0 }
RetencionField(rows) ==
    IF Len(rows) = 0
    THEN [promedio_meses_uso |-> Num(0), tasa_retencion |-> Num(0)]
    ELSE rows[1]

\* The object collectRawData returns once every query has returned.
CollectRawData(s) ==
    [userStats |->
        [total |-> FirstTotalOrZero(QueryRows(s, "userCount")),
         nuevos_este_mes |-> FirstTotalOrZero(QueryRows(s, "newUsersThisMonth")),
         tests_totales |-> FirstTotalOrZero(QueryRows(s, "testCount")),
         mensajes_totales |-> FirstTotalOrZero(QueryRows(s, "messageCount"))],
     anxietyLevels |-> QueryRows(s, "anxietyLevels"),
     depressionLevels |-> QueryRows(s, "depressionLevels"),
     ageDistribution |-> QueryRows(s, "ageDistribution"),
     genderDistribution |-> QueryRows(s, "genderDistribution"),
     monthlyActivity |->
        CombineMonthly(QueryRows(s, "monthlyUsers"), QueryRows(s, "monthlyTests")),
     messageActivity |-> TranslateDays(QueryRows(s, "messageActivity")),
     correlationData |-> QueryRows(s, "correlationData"),
     efectividad |-> EfectividadField(QueryRows(s, "efectividad")),
     retencion |-> RetencionField(QueryRows(s, "retencion")),
     patronesUso |-> QueryRows(s, "patronesUso"),
     respuestasExtra |-> QueryRows(s, "respuestasExtra"),
     chatAnalytics |-> QueryRows(s, "chatAnalytics")]

\* The errors executeQuery rethrows: the Error objects of the database driver.
QueryErrors ==
    {[isError |-> TRUE, message |-> "connect ECONNREFUSED"],
     [isError |-> TRUE, message |-> "Table users does not exist"]}

-----------------------------------------------------------------------------
(* The insight agents                                                      *)

\* The agents in the order of the array given to Promise.all.
Agents == 1..6

\* The geminiInsights field each agent fills.
Role ==
    <<"effectiveness", "significantPatterns", "correlations", "temporalTrends",
      "recommendations", "responseAnalysis">>

ListRoles == {"significantPatterns", "correlations", "temporalTrends", "recommendations"}

\* The literals of the catch block of analyzeDataWithGeminiAgents.
Fallback ==
    [effectiveness |->
        <<"{", "insight:", "Error al analizar efectividad", ",", "score:", "0", "}">>,
     significantPatterns |-> <<"[", "Error al analizar patrones", "]">>,
     correlations |-> <<"[", "Error al analizar correlaciones", "]">>,
     temporalTrends |-> <<"[", "Error al analizar tendencias", "]">>,
     recommendations |-> <<"[", "Error al generar recomendaciones", "]">>,
     responseAnalysis |->
        <<"{", "commonPatterns:", "[", "]", ",",
          "keyInsights:", "[", "Error al analizar respuestas", "]", ",",
          "recommendedActions:", "[", "]", "}">>]

\* An output of the shape the prompt of the role asks for.
GoodOutput(r) ==
    IF r = "effectiveness"
    THEN <<"{", "insight:", "s", ",", "score:", "n", "}">>
    ELSE IF r = "responseAnalysis"
    THEN <<"{", "commonPatterns:", "[", "s", "]", ",",
           "keyInsights:", "[", "s", ",", "s", "]", ",",
           "recommendedActions:", "[", "]", "}">>
    ELSE <<"[", "s", ",", "s", "]">>

\* The texts the generation backend may answer an agent of role r with: the
\* asked-for JSON, bare or fenced; an object inside prose; JSON of another
\* shape; prose without JSON; prose around braces that hold no JSON.
BackendTexts(r) ==
    {GoodOutput(r),
     <<"FENCE_JSON">> \o GoodOutput(r) \o <<"FENCE">>,
     <<"prose", "{", "other:", "s", "}", "prose">>,
     <<"null">>,
     <<"prose">>,
     <<"prose", "{", "prose", "}">>}

-----------------------------------------------------------------------------
(* The request: GET, collectRawData, analyzeDataWithGeminiAgents           *)

NoSnapshot == [none |-> TRUE]

NoResponse == [none |-> TRUE]

NoError == [none |-> TRUE]

\* What runGeminiAgent throws: the error of the backend call, rethrown, or
\* its own error after the second parse attempt.
BackendError == [isError |-> TRUE, message |-> "generateContent failed"]

InvalidJSONError == [isError |-> TRUE, message |-> "El agente no generó JSON válido"]

\* Mutant of ErrorMessage: the instanceof test never succeeds.
ErrorMessageUnknown(error) == "Error desconocido"

\* error instanceof Error ? error.message : 'Error desconocido'
ErrorMessage(error) ==
    IF error.isError THEN error.message ELSE "Error desconocido"

\* Mutant of ErrorResponse: the status option is left out.
ErrorResponseDefaultStatus(error) ==
    [status |-> 200, body |-> [success |-> FALSE, error |-> ErrorMessage(error)]]

\* NextResponse.json({success: false, error: errorMessage}, {status: 500})
ErrorResponse(error) ==
    [status |-> 500, body |-> [success |-> FALSE, error |-> ErrorMessage(error)]]

\* NextResponse.json({success: true, stats: enhancedData}); the status defaults to 200.
SuccessResponse(enhancedData) ==
    [status |-> 200, body |-> [success |-> TRUE, stats |-> enhancedData]]

\* Mutant of Enhanced: the returned object holds the insights alone.
EnhancedInsightsOnly(raw, insights) == [geminiInsights |-> insights]

\* {...rawData, geminiInsights: insights}
Enhanced(raw, insights) ==
    [k \in DOMAIN raw \cup {"geminiInsights"} |->
        IF k = "geminiInsights" THEN insights ELSE raw[k]]

\* The geminiInsights object of the normal return: each field is the value
\* the promise of its agent was fulfilled with.
MergedInsights(vals) ==
    [effectiveness |-> vals[1],
     significantPatterns |-> vals[2],
     correlations |-> vals[3],
     temporalTrends |-> vals[4],
     recommendations |-> vals[5],
     responseAnalysis |-> vals[6]]

NoInput == [none |-> TRUE]

\* No query or function is studied alone.
IdleFn == fnIn = <<>> /\ fnOut = <<>> /\ fnOut2 = <<>>

\* let pool: the module variable is undefined until the first getConnection.
NoPool == 0

\* The largest number of executeQuery calls in flight together.
MaxCallers == 3

Callers == 1..MaxCallers

\* The state of lib/db.js after the module is loaded: no pool, no call made.
IdlePool ==
    /\ pool = NoPool
    /\ createPoolRuns = 0
    /\ callerPc = [c \in Callers |-> "idle"]
    /\ callerConn = [c \in Callers |-> NoPool]

\* The object dataForAgents: the snapshot regrouped, without respuestasExtra.
DataForAgents(raw) ==
    [userStats |-> raw.userStats,
     anxietyDistribution |-> raw.anxietyLevels,
     depressionDistribution |-> raw.depressionLevels,
     demographics |-> [age |-> raw.ageDistribution, gender |-> raw.genderDistribution],
     activityPatterns |-> [monthly |-> raw.monthlyActivity, weekly |-> raw.messageActivity],
     correlationData |-> raw.correlationData,
     effectiveness |-> raw.efectividad,
     retention |-> raw.retencion,
     usagePatterns |-> raw.patronesUso,
     chatAnalytics |-> raw.chatAnalytics]

\* Mutant of AgentInput: every agent is given the whole snapshot.
AgentInputWholeSnapshot(a, raw) == raw

\* The data argument of the runGeminiAgent call of agent a.
AgentInput(a, raw) ==
    CASE a = 1 -> [efectividad |-> raw.efectividad, correlationData |-> raw.correlationData]
      [] a = 2 -> [anxietyLevels |-> raw.anxietyLevels,
                   depressionLevels |-> raw.depressionLevels,
                   ageDistribution |-> raw.ageDistribution,
                   genderDistribution |-> raw.genderDistribution]
      [] a = 3 -> [correlationData |-> raw.correlationData,
                   chatAnalytics |-> raw.chatAnalytics,
                   patronesUso |-> raw.patronesUso]
      [] a = 4 -> [monthlyActivity |-> raw.monthlyActivity,
                   messageActivity |-> raw.messageActivity]
      [] a = 5 -> DataForAgents(raw)
      [] a = 6 -> [respuestasExtra |-> raw.respuestasExtra]

\* The normal return of analyzeDataWithGeminiAgents.
AnalyzeReturn(raw, vals) == Enhanced(raw, MergedInsights(vals))

\* Mutant of AnalyzeCatch: the catch block returns the snapshot alone.
AnalyzeCatchRawOnly(raw, error) == raw

\* The return of the catch block of analyzeDataWithGeminiAgents.
AnalyzeCatch(raw, error) == Enhanced(raw, Fallback)

Init ==
    /\ store \in Stores
    /\ pc = "collect"
    /\ qi = 0
    /\ rawData = NoSnapshot
    /\ agentSt = [a \in Agents |-> "idle"]
    /\ agentVal = [a \in Agents |-> NoError]
    /\ calls = [a \in Agents |-> 0]
    /\ allSt = "none"
    /\ response = NoResponse
    /\ queryError = NoError
    /\ muIn = <<>> /\ mtIn = <<>> /\ muOut = <<>>
    /\ maIn = <<>> /\ maOut = <<>>
    /\ rtTable = <<>> /\ efOut = NoSnapshot
    /\ agentIn = [a \in Agents |-> NoInput]
    /\ IdleFn
    /\ IdlePool

\* One executeQuery call of collectRawData returns its rows.  After the last
\* one collectRawData builds the snapshot and returns it to GET.
ExecuteQueryOk ==
    /\ pc = "collect"
    /\ qi < NumQueries
    /\ qi' = qi + 1
    /\ IF qi + 1 = NumQueries
       THEN /\ rawData' = CollectRawData(store)
            /\ pc' = "analyze"
       ELSE UNCHANGED <<rawData, pc>>
    /\ UNCHANGED <<poolVars, store, agentSt, agentVal, calls, allSt, response, queryError, agentIn>>
    /\ UNCHANGED <<monthlyVars, weeklyVars, efVars, fnVars>>

\* One executeQuery call throws: collectRawData rejects, the catch block of
\* GET answers.
ExecuteQueryFail ==
    /\ pc = "collect"
    /\ qi < NumQueries
    /\ \E error \in QueryErrors :
        /\ queryError' = error
        /\ response' = ErrorResponse(error)
    /\ pc' = "responded"
    /\ UNCHANGED <<poolVars, store, qi, rawData, agentSt, agentVal, calls, allSt, agentIn>>
    /\ UNCHANGED <<monthlyVars, weeklyVars, efVars, fnVars>>

\* Mutant of LaunchAgents: GET does not await collectRawData before it calls
\* analyzeDataWithGeminiAgents.
LaunchAgentsNoAwait ==
    /\ pc \in {"collect", "analyze"}
    /\ allSt = "none"
    /\ agentSt' = [a \in Agents |-> "pending"]
    /\ calls' = [a \in Agents |-> calls[a] + 1]
    /\ agentIn' = [a \in Agents |->
                      IF rawData = NoSnapshot THEN NoInput ELSE AgentInput(a, rawData)]
    /\ allSt' = "pending"
    /\ pc' = "join"
    /\ UNCHANGED <<poolVars, store, qi, rawData, agentVal, response, queryError>>
    /\ UNCHANGED <<monthlyVars, weeklyVars, efVars, fnVars>>

\* GET calls analyzeDataWithGeminiAgents, which calls runGeminiAgent six
\* times while it builds the array for Promise.all; each call runs up to its
\* await of model.generateContent, so six backend calls are in flight when
\* the function awaits the Promise.all promise.
LaunchAgents ==
    /\ pc = "analyze"
    /\ agentSt' = [a \in Agents |-> "pending"]
    /\ calls' = [a \in Agents |-> calls[a] + 1]
    /\ agentIn' = [a \in Agents |-> AgentInput(a, rawData)]
    /\ allSt' = "pending"
    /\ pc' = "join"
    /\ UNCHANGED <<poolVars, store, qi, rawData, agentVal, response, queryError>>
    /\ UNCHANGED <<monthlyVars, weeklyVars, efVars, fnVars>>

\* The promise of agent a settles with state st and value val.  Promise.all
\* is fulfilled when the last of the six is fulfilled and rejected at the
\* first rejection; either resumes analyzeDataWithGeminiAgents, which returns
\* the merged object or, from its catch block, the snapshot with the literal
\* insights, and GET answers.  Once the Promise.all promise is settled, a
\* later settlement of an agent has no effect on it.
Settle(a, st, val) ==
    LET vals == [agentVal EXCEPT ![a] = val]
        sts == [agentSt EXCEPT ![a] = st]
    IN  /\ agentSt' = sts
        /\ agentVal' = vals
        /\ IF allSt = "pending" /\ st = "rejected"
           THEN /\ allSt' = "rejected"
                /\ response' = SuccessResponse(AnalyzeCatch(rawData, val))
                /\ pc' = "responded"
           ELSE IF allSt = "pending" /\ \A b \in Agents : sts[b] = "fulfilled"
           THEN /\ allSt' = "fulfilled"
                /\ response' = SuccessResponse(AnalyzeReturn(rawData, vals))
                /\ pc' = "responded"
           ELSE UNCHANGED <<allSt, response, pc>>
        /\ UNCHANGED <<poolVars, store, qi, rawData, calls, queryError, agentIn>>
        /\ UNCHANGED <<monthlyVars, weeklyVars, efVars, fnVars>>

\* Mutant of AgentBackendError: the call to the backend is made once more
\* after the error.
AgentBackendErrorRetry ==
    \E a \in Agents :
        /\ agentSt[a] = "pending"
        /\ calls[a] < 2
        /\ calls' = [calls EXCEPT ![a] = calls[a] + 1]
        /\ UNCHANGED <<poolVars, store, pc, qi, rawData, agentSt, agentVal, allSt, response, queryError, agentIn>>
        /\ UNCHANGED <<monthlyVars, weeklyVars, efVars, fnVars>>

\* model.generateContent (or response.text()) throws: runGeminiAgent logs and
\* rethrows.
AgentBackendError ==
    \E a \in Agents :
        /\ agentSt[a] = "pending"
        /\ Settle(a, "rejected", BackendError)

\* The backend answers agent a with a text: runGeminiAgent returns the parsed
\* value or throws when neither parse attempt succeeds.
AgentBackendText ==
    \E a \in Agents :
        /\ agentSt[a] = "pending"
        /\ \E text \in BackendTexts(Role[a]) :
            LET parsed == ParseAgentText(text)
            IN  IF parsed.ok
                THEN Settle(a, "fulfilled", parsed.value)
                ELSE Settle(a, "rejected", InvalidJSONError)

Next ==
    \/ ExecuteQueryOk
    \/ ExecuteQueryFail
    \/ LaunchAgents
    \/ AgentBackendError
    \/ AgentBackendText

Spec == Init /\ [][Next]_vars

-----------------------------------------------------------------------------
(* Claims about the request                                                *)

Responded == response # NoResponse

Succeeded == Responded /\ response.body.success

Insights == response.body.stats.geminiInsights

AllSettled == \A a \in Agents : agentSt[a] \in {"fulfilled", "rejected"}

RoleSet == {Role[a] : a \in Agents}

\* C1: agent failures are isolated per agent.  Once the six agents have
\* settled, the bundle of the success response holds the fallback literal of
\* the role in the field of every agent that failed and the value the agent
\* parsed in the field of every agent that succeeded.
C1_FailuresIsolatedPerAgent ==
    (Succeeded /\ AllSettled) =>
        \A a \in Agents :
            Insights[Role[a]] =
                IF agentSt[a] = "rejected" THEN Fallback[Role[a]] ELSE agentVal[a]

\* C1, the case of the spec: only the Recommendations agent (agent 5) failed,
\* on unparsable output, and the other five succeeded.
C1_OnlyRecommendationsFailed ==
    /\ Succeeded
    /\ agentSt[5] = "rejected" /\ agentVal[5] = InvalidJSONError
    /\ \A a \in Agents \ {5} : agentSt[a] = "fulfilled"

\* C2: once the snapshot is assembled the request never fails because of the
\* insight stage.  Whatever the agents did, no response other than success
\* with status 200 is given, and as soon as one agent has failed or all six
\* have succeeded the response is there with all six insight fields.
C2_InsightStageNeverFails ==
    /\ (rawData # NoSnapshot /\ Responded) =>
           (response.body.success /\ response.status = 200)
    /\ ((\E a \in Agents : agentSt[a] = "rejected")
           \/ (\A a \in Agents : agentSt[a] = "fulfilled")) =>
           /\ Succeeded
           /\ response.status = 200
           /\ "geminiInsights" \in DOMAIN response.body.stats
           /\ DOMAIN Insights = RoleSet

\* C2 witness: one agent failed on a backend error, another on unparsable
\* output, a third succeeded, and the request was answered with success.
C2_MixedFailuresAnswered ==
    /\ Succeeded
    /\ \E a, b, c \in Agents :
        /\ agentSt[a] = "rejected" /\ agentVal[a] = BackendError
        /\ agentSt[b] = "rejected" /\ agentVal[b] = InvalidJSONError
        /\ agentSt[c] = "fulfilled"

\* C3: the orchestrator performs a full join.  No agent invocation is still
\* pending once the response has been sent.
C3_FullJoin ==
    Responded => \A a \in Agents : agentSt[a] # "pending"

\* C3, the case of the spec: one agent has failed, the response is sent and
\* another agent is still in flight.
C3_ResponseWhileAgentInFlight ==
    /\ Succeeded
    /\ \E a, b \in Agents : agentSt[a] = "rejected" /\ agentSt[b] = "pending"

\* C4: aggregation is fail-fast and all-or-nothing.  When an extractor query
\* has failed, the response is status 500 with a body of exactly success:false
\* and the message of the error: no statistical view is in it.
C4_AggregationFailFast ==
    queryError # NoError =>
        /\ Responded
        /\ response.status = 500
        /\ response.body = [success |-> FALSE, error |-> queryError.message]

\* C4 witness: a query failed after earlier queries had succeeded.
C4_FailedAfterSomeQueries ==
    queryError # NoError /\ qi >= 3 /\ Responded

\* C5: in every response, stats is present iff success is true, error is
\* present iff success is false, and the status is 200 on success and 500
\* otherwise.
C5_ResponseContract ==
    Responded =>
        /\ ("stats" \in DOMAIN response.body) <=> response.body.success
        /\ ("error" \in DOMAIN response.body) <=> ~response.body.success
        /\ response.status = IF response.body.success THEN 200 ELSE 500

\* C5 witness: a failure response has been given.
C5_FailureResponded ==
    Responded /\ ~response.body.success /\ "error" \in DOMAIN response.body

\* C6: no agent is invoked before collectRawData has completed every query
\* and returned the snapshot, and none at all when collectRawData failed.
C6_NoAgentBeforeSnapshot ==
    /\ \A a \in Agents :
           (agentSt[a] # "idle" \/ calls[a] > 0) =>
               (qi = NumQueries /\ rawData # NoSnapshot /\ queryError = NoError)
    /\ queryError # NoError =>
           \A a \in Agents : agentSt[a] = "idle" /\ calls[a] = 0

\* C6 witness: the agents have been invoked.
C6_AgentsInvoked ==
    \A a \in Agents : calls[a] = 1 /\ agentSt[a] = "pending"

\* v is a JSON list of strings.
IsStringList(v) ==
    /\ Len(v) >= 2
    /\ v[1] = "[" /\ v[Len(v)] = "]"
    /\ Len(v) = 2 \/ Len(v) % 2 = 1
    /\ \A i \in 2..(Len(v) - 1) :
           IF i % 2 = 0 THEN v[i] \in StrToks ELSE v[i] = ","

\* v is a JSON object with a string insight and a numeric score.
IsEffectiveness(v) ==
    \E str \in StrToks, num \in NumToks :
        v \in {<<"{", "insight:", str, ",", "score:", num, "}">>,
               <<"{", "score:", num, ",", "insight:", str, "}">>}

\* The end of the string list that starts at v[i], or 0.
StringListEnd(v, i) ==
    LET ends == {j \in i..Len(v) : IsStringList(SubSeq(v, i, j))}
    IN  IF ends = {} THEN 0 ELSE MinOf(ends) + 1

\* v is a JSON object with the three lists of strings, in the order asked for.
IsResponseAnalysis(v) ==
    /\ Len(v) >= 11
    /\ v[1] = "{" /\ v[2] = "commonPatterns:"
    /\ LET a == StringListEnd(v, 3)
       IN  /\ a # 0 /\ a + 1 <= Len(v)
           /\ v[a] = "," /\ v[a + 1] = "keyInsights:"
           /\ LET b == StringListEnd(v, a + 2)
              IN  /\ b # 0 /\ b + 1 <= Len(v)
                  /\ v[b] = "," /\ v[b + 1] = "recommendedActions:"
                  /\ LET c == StringListEnd(v, b + 2)
                     IN  c # 0 /\ c = Len(v) /\ v[c] = "}"

\* v has the shape declared for role r.
ConformsTo(r, v) ==
    IF r = "effectiveness" THEN IsEffectiveness(v)
    ELSE IF r = "responseAnalysis" THEN IsResponseAnalysis(v)
    ELSE IsStringList(v)

\* C7: every field of the bundle of a success response conforms to the shape
\* of its role or is the fallback literal of the role.
C7_BundleConformsToShapes ==
    Succeeded =>
        \A r \in RoleSet : ConformsTo(r, Insights[r]) \/ Insights[r] = Fallback[r]

\* C7, the case of the spec: a list role holds JSON of another shape.
C7_ListRoleHoldsNonList ==
    /\ Succeeded
    /\ \E r \in ListRoles : Insights[r] \in {<<"null">>, <<"{", "other:", "s", "}">>}

-----------------------------------------------------------------------------
(* The monthly-activity merge on bounded inputs                            *)

\* Month keys are 1..MaxMonth, standing for consecutive YYYY-MM keys.
MaxMonth == 3

\* The largest COUNT(*) of a month row.
MaxCount == 2

\* The i-th smallest element of the set of integers S.
IthSmallest(S, i) == CHOOSE x \in S : Cardinality({y \in S : y < x}) = i - 1

\* DATE_FORMAT(created_at, '%b') of a day in month m.
MonthName(m) ==
    <<"Jan", "Feb", "Mar", "Apr", "May", "Jun",
      "Jul", "Aug", "Sep", "Oct", "Nov", "Dec">>[((m - 1) % 12) + 1]

\* The results the monthlyUsers query can return: one row per month that has
\* a new user (GROUP BY month, name), each with a count of at least one, in
\* ascending order of the month key (ORDER BY month ASC).
MonthlyUsersResults ==
    {[i \in 1..Cardinality(S) |->
        [month |-> IthSmallest(S, i),
         name |-> MonthName(IthSmallest(S, i)),
         usuarios |-> c[IthSmallest(S, i)]]] :
        S \in SUBSET (1..MaxMonth), c \in [1..MaxMonth -> 1..MaxCount]}

\* The results the monthlyTests query can return, likewise.
MonthlyTestsResults ==
    {[i \in 1..Cardinality(S) |->
        [month |-> IthSmallest(S, i), tests |-> c[IthSmallest(S, i)]]] :
        S \in SUBSET (1..MaxMonth), c \in [1..MaxMonth -> 1..MaxCount]}

IdleRequest ==
    /\ store = EmptyStore
    /\ qi = 0
    /\ rawData = NoSnapshot
    /\ agentSt = [a \in Agents |-> "idle"]
    /\ agentVal = [a \in Agents |-> NoError]
    /\ calls = [a \in Agents |-> 0]
    /\ allSt = "none"
    /\ response = NoResponse
    /\ queryError = NoError
    /\ agentIn = [a \in Agents |-> NoInput]
    /\ IdlePool

InitMonthly ==
    /\ IdleRequest
    /\ pc = "monthly"
    /\ muIn \in MonthlyUsersResults
    /\ mtIn \in MonthlyTestsResults
    /\ muOut = <<>>
    /\ maIn = <<>> /\ maOut = <<>>
    /\ rtTable = <<>> /\ efOut = NoSnapshot
    /\ IdleFn

\* collectRawData combines the two monthly results.
CombineMonthlyStep ==
    /\ pc = "monthly"
    /\ muOut' = CombineMonthly(muIn, mtIn)
    /\ pc' = "monthlyDone"
    /\ UNCHANGED <<poolVars, store, qi, rawData, agentSt, agentVal, calls, allSt, response, queryError>>
    /\ UNCHANGED <<agentIn, fnVars>>
    /\ UNCHANGED <<muIn, mtIn, weeklyVars, efVars>>

NextMonthly == CombineMonthlyStep

SpecMonthly == InitMonthly /\ [][NextMonthly]_vars

\* The tests count of month key m in the tests series, 0 when it has no row.
TestsOfMonth(series, m) ==
    LET hits == {k \in 1..Len(series) : series[k].month = m}
    IN  IF hits = {} THEN 0 ELSE series[CHOOSE k \in hits : TRUE].tests

\* C8: the monthly merge is keyed on the new-users series: one entry per row
\* of that series, in the same ascending order of month key, each carrying the
\* row unchanged and the tests count of the tests row with the same key, or 0
\* when there is none; no month key that occurs only in the tests series
\* appears.
C8_MonthlyMergeKeyedOnUsers ==
    pc = "monthlyDone" =>
        /\ Len(muOut) = Len(muIn)
        /\ \A i \in 1..Len(muOut) :
            /\ muOut[i].month = muIn[i].month
            /\ muOut[i].name = muIn[i].name
            /\ muOut[i].usuarios = muIn[i].usuarios
            /\ muOut[i].tests = TestsOfMonth(mtIn, muIn[i].month)
        /\ \A i, j \in 1..Len(muOut) : i < j => muOut[i].month < muOut[j].month
        /\ \A k \in 1..Len(mtIn) :
            (\A i \in 1..Len(muIn) : muIn[i].month # mtIn[k].month) =>
                (\A i \in 1..Len(muOut) : muOut[i].month # mtIn[k].month)

\* C8 witness: a merge in which one month has a matching tests row, another
\* has none (tests 0), and the tests series has a month the users series lacks.
C8_MergeWithGapAndExtraMonth ==
    /\ pc = "monthlyDone"
    /\ \E i, j \in 1..Len(muOut) : muOut[i].tests > 0 /\ muOut[j].tests = 0
    /\ \E k \in 1..Len(mtIn) : \A i \in 1..Len(muIn) : muIn[i].month # mtIn[k].month

-----------------------------------------------------------------------------
(* The weekday translation on bounded inputs                               *)

\* The largest number of rows of the messageActivity result.
MaxDays == 2

\* The largest COUNT(*) of a weekday row.
MaxMsgs == 2

\* The argument list of FIELD in the ORDER BY of the messageActivity query.
FieldOrder == <<"Mon", "Tue", "Wed", "Thu", "Fri", "Sat", "Sun">>

\* FIELD(dia, 'Mon', ..., 'Sun'): the position of dia in the list, 0 when absent.
FieldRank(dia) ==
    LET at == {i \in 1..Len(FieldOrder) : FieldOrder[i] = dia}
    IN  IF at = {} THEN 0 ELSE MinOf(at)

\* The labels DATE_FORMAT(created_at, '%a') yields: the English ones and, as
\* examples of another lc_time_names setting, two Spanish ones.
DayLabels == {"Mon", "Tue", "Wed", "Thu", "Fri", "Sat", "Sun", "lun", "sáb"}

\* A row of the messageActivity result: the bot messages of a day (SUM(is_bot))
\* are among its messages (COUNT(*)).
DayRows ==
    {r \in [dia : DayLabels, mensajes : 1..MaxMsgs, chatbots : 0..MaxMsgs] :
        r.chatbots <= r.mensajes}

\* The results the messageActivity query can return: one row per label
\* (GROUP BY dia), ordered by FIELD.
MessageActivityResults ==
    UNION {{rows \in [1..n -> DayRows] :
               \A i, j \in 1..n :
                   i < j => /\ rows[i].dia # rows[j].dia
                            /\ FieldRank(rows[i].dia) <= FieldRank(rows[j].dia)} :
           n \in 0..MaxDays}

InitWeekly ==
    /\ IdleRequest
    /\ pc = "weekly"
    /\ maIn \in MessageActivityResults
    /\ maOut = <<>>
    /\ muIn = <<>> /\ mtIn = <<>> /\ muOut = <<>>
    /\ rtTable = <<>> /\ efOut = NoSnapshot
    /\ IdleFn

\* collectRawData translates the day labels of the messageActivity result.
TranslateDaysStep ==
    /\ pc = "weekly"
    /\ maOut' = TranslateDays(maIn)
    /\ pc' = "weeklyDone"
    /\ UNCHANGED <<poolVars, store, qi, rawData, agentSt, agentVal, calls, allSt, response, queryError>>
    /\ UNCHANGED <<agentIn, fnVars>>
    /\ UNCHANGED <<maIn, monthlyVars, efVars>>

NextWeekly == TranslateDaysStep

SpecWeekly == InitWeekly /\ [][NextWeekly]_vars

\* The translation table as the claim enumerates it.
ClaimedTranslation ==
    {<<"Mon", "Lun">>, <<"Tue", "Mar">>, <<"Wed", "Mié">>, <<"Thu", "Jue">>,
     <<"Fri", "Vie">>, <<"Sat", "Sáb">>, <<"Sun", "Dom">>}

\* C9: the weekday translation maps each label by the fixed table, passes
\* every label outside the table through unchanged, and leaves the order of
\* the entries and the message and bot-reply counts of each entry unchanged.
C9_WeekdayTranslation ==
    pc = "weeklyDone" =>
        /\ Len(maOut) = Len(maIn)
        /\ \A i \in 1..Len(maIn) :
            /\ \A p \in ClaimedTranslation : maIn[i].dia = p[1] => maOut[i].dia = p[2]
            /\ (\A p \in ClaimedTranslation : maIn[i].dia # p[1]) =>
                   maOut[i].dia = maIn[i].dia
            /\ maOut[i].mensajes = maIn[i].mensajes
            /\ maOut[i].chatbots = maIn[i].chatbots

\* C9 witness: a translated result of two rows, one with a label outside the
\* table and one with a label of the table.
C9_TranslatedMixedLabels ==
    /\ pc = "weeklyDone"
    /\ Len(maOut) = 2
    /\ maOut[1].dia = "lun" /\ maOut[2].dia = "Sáb"
    /\ maOut[1].mensajes # maOut[2].mensajes

-----------------------------------------------------------------------------
(* The effectiveness summary on bounded tables                             *)

\* The largest number of rows of resultados_test.
MaxTests == 3

\* The rows resultados_test can hold: two users, test dates 0, 29 and 30 days
\* after the first, an anxiety score that is NULL, 3 or 8.
TestRows ==
    [usuario_id : {1, 2}, fecha : {0, 29, 30}, ansiedad_score : {NULL, Num(3), Num(8)}]

TestTables == UNION {[1..n -> TestRows] : n \in 0..MaxTests}

InitEfectividad ==
    /\ IdleRequest
    /\ pc = "efectividad"
    /\ rtTable \in TestTables
    /\ efOut = NoSnapshot
    /\ muIn = <<>> /\ mtIn = <<>> /\ muOut = <<>>
    /\ maIn = <<>> /\ maOut = <<>>
    /\ IdleFn

\* collectRawData runs the effectiveness query and fills the efectividad
\* field of the snapshot from its result.
EfectividadStep ==
    /\ pc = "efectividad"
    /\ efOut' = EfectividadField(EfectividadQuery(rtTable))
    /\ pc' = "efectividadDone"
    /\ UNCHANGED <<poolVars, store, qi, rawData, agentSt, agentVal, calls, allSt, response, queryError>>
    /\ UNCHANGED <<agentIn, fnVars>>
    /\ UNCHANGED <<rtTable, monthlyVars, weeklyVars>>

NextEfectividad == EfectividadStep

SpecEfectividad == InitEfectividad /\ [][NextEfectividad]_vars

\* The number of eligible users the summary reports, 0 when it reports none.
TotalEligible ==
    IF "total_usuarios" \in DOMAIN efOut THEN efOut.total_usuarios ELSE 0

\* C10: the improvement percentage of the snapshot is
\* round(improved / total * 100, 1) when the total of eligible users is
\* positive, and the number 0 (not null) when that total is 0.
C10_ImprovementPercentage ==
    pc = "efectividadDone" =>
        IF TotalEligible > 0
        THEN efOut.porcentaje_mejora =
                 Num(RoundDiv(efOut.mejoraron[1] * 1000, efOut.total_usuarios))
        ELSE efOut.porcentaje_mejora = Num(0)

\* C10, the failing case: the cohort is empty and the percentage is null.
C10_EmptyCohortNullPercentage ==
    /\ pc = "efectividadDone"
    /\ TotalEligible = 0
    /\ efOut.porcentaje_mejora = NULL

\* The request reached the orchestrator and its agents were launched.
Launched == pc = "join" \/ (pc = "responded" /\ queryError = NoError)

\* C17: in every request that reaches the orchestrator six agent tasks are
\* launched, one per role, each calling the backend exactly once; all six
\* calls are issued before any result is processed, and no call is repeated
\* after a backend error or a parse failure.
C17_SixAgentsOneCallEach ==
    /\ Cardinality(Agents) = 6
    /\ Cardinality(RoleSet) = 6
    /\ \A a \in Agents : calls[a] <= 1
    /\ Launched => \A a \in Agents : calls[a] = 1 /\ agentSt[a] # "idle"
    /\ (\E a \in Agents : agentSt[a] \in {"fulfilled", "rejected"}) =>
           \A b \in Agents : calls[b] = 1

\* C17 witness: one agent met a backend error, another a parse failure, a
\* third is still in flight, and every agent has called the backend once.
C17_ErrorsWithoutRetry ==
    /\ \E a, b, c \in Agents :
           /\ agentSt[a] = "rejected" /\ agentVal[a] = BackendError
           /\ agentSt[b] = "rejected" /\ agentVal[b] = InvalidJSONError
           /\ agentSt[c] = "pending"
    /\ \A a \in Agents : calls[a] = 1

\* C18: the insight stage leaves the snapshot unchanged: in the normal and in
\* the fallback outcome every statistical field of the returned payload equals
\* the field of the snapshot that collectRawData returned, and only the
\* insights field is added.
C18_SnapshotUnchangedByInsights ==
    /\ rawData # NoSnapshot => rawData = CollectRawData(store)
    /\ Succeeded =>
           /\ DOMAIN response.body.stats = DOMAIN CollectRawData(store) \cup {"geminiInsights"}
           /\ "geminiInsights" \notin DOMAIN CollectRawData(store)
           /\ \A k \in DOMAIN CollectRawData(store) :
                  response.body.stats[k] = CollectRawData(store)[k]

\* C18 witness: the fallback outcome on a store with data: the payload holds
\* the literal insights and the statistics of the snapshot.
C18_FallbackKeepsStatistics ==
    /\ Succeeded
    /\ allSt = "rejected"
    /\ store = SampleStore
    /\ Insights = Fallback
    /\ response.body.stats.userStats.total = 2
    /\ response.body.stats.respuestasExtra = rawData.respuestasExtra

\* The fields of the snapshot that the input of agent a is built from.
Slice(a) ==
    CASE a = 1 -> {"efectividad", "correlationData"}
      [] a = 2 -> {"anxietyLevels", "depressionLevels", "ageDistribution",
                   "genderDistribution"}
      [] a = 3 -> {"correlationData", "chatAnalytics", "patronesUso"}
      [] a = 4 -> {"monthlyActivity", "messageActivity"}
      [] a = 5 -> {"userStats", "anxietyLevels", "depressionLevels", "ageDistribution",
                   "genderDistribution", "monthlyActivity", "messageActivity",
                   "correlationData", "efectividad", "retencion", "patronesUso",
                   "chatAnalytics"}
      [] a = 6 -> {"respuestasExtra"}

\* The snapshots that differ from raw in the one field k.
VariantsAt(raw, k) == {[raw EXCEPT ![k] = CollectRawData(s)[k]] : s \in Stores}

\* C19: the input of each agent depends only on its slice of the snapshot:
\* the effectiveness agent receives the effectiveness and correlation views
\* only, the pattern agent the four distribution views only, the free-text
\* samples go to the response-analysis agent only, and a snapshot that differs
\* outside the slice of an agent gives that agent the same input.
C19_AgentInputOnlyItsSlice ==
    Launched =>
        /\ DOMAIN agentIn[1] = {"efectividad", "correlationData"}
        /\ DOMAIN agentIn[2] = {"anxietyLevels", "depressionLevels", "ageDistribution",
                                "genderDistribution"}
        /\ \A a \in Agents : "respuestasExtra" \in DOMAIN agentIn[a] <=> a = 6
        /\ agentIn[6] = [respuestasExtra |-> rawData.respuestasExtra]
        /\ \A a \in Agents : \A k \in DOMAIN rawData \ Slice(a) :
               \A other \in VariantsAt(rawData, k) : AgentInput(a, other) = agentIn[a]

\* C19 witness: the agents were launched on a snapshot with free-text
\* samples; the response-analysis agent holds them, and the effectiveness
\* agent holds the same input as for the snapshot without the samples.
C19_SamplesReachOneAgent ==
    /\ Launched
    /\ rawData.respuestasExtra # <<>>
    /\ agentIn[6].respuestasExtra = rawData.respuestasExtra
    /\ [rawData EXCEPT !.respuestasExtra = <<>>] \in VariantsAt(rawData, "respuestasExtra")
    /\ agentIn[1] = AgentInput(1, [rawData EXCEPT !.respuestasExtra = <<>>])
    /\ agentIn[1] # AgentInput(1, [rawData EXCEPT !.efectividad = [porcentaje_mejora |-> NULL]])

\* The list views of the snapshot.
ListViews ==
    {"anxietyLevels", "depressionLevels", "ageDistribution", "genderDistribution",
     "monthlyActivity", "messageActivity", "correlationData", "patronesUso",
     "respuestasExtra", "chatAnalytics"}

FechasOf(tbl, u) == {tbl[i].fecha : i \in {k \in 1..Len(tbl) : tbl[k].usuario_id = u}}

\* The distinct users of tbl whose first and last tests are at least
\* MinSpanDays apart.
EligibleUsers(tbl) ==
    {u \in {tbl[i].usuario_id : i \in 1..Len(tbl)} :
        MaxOf(FechasOf(tbl, u)) - MinOf(FechasOf(tbl, u)) >= MinSpanDays}

\* User u has a test on the last date whose score is strictly lower than
\* that of a test on the first date.
ImprovedUser(tbl, u) ==
    \E i, j \in 1..Len(tbl) :
        /\ tbl[i].usuario_id = u /\ tbl[j].usuario_id = u
        /\ tbl[i].fecha = MinOf(FechasOf(tbl, u))
        /\ tbl[j].fecha = MaxOf(FechasOf(tbl, u))
        /\ tbl[i].ansiedad_score # NULL /\ tbl[j].ansiedad_score # NULL
        /\ tbl[j].ansiedad_score[1] < tbl[i].ansiedad_score[1]

\* C22: the effectiveness cohort counts each eligible user exactly once: the
\* total is the number of distinct users whose first and last tests are at
\* least 30 days apart and the improved count is the number of those whose
\* last score is strictly lower than their first, also when a user has
\* several tests on the first or the last date.
C22_CohortCountsUsersOnce ==
    pc = "efectividadDone" =>
        /\ TotalEligible = Cardinality(EligibleUsers(rtTable))
        /\ (IF efOut.mejoraron = NULL THEN 0 ELSE efOut.mejoraron[1]) =
               Cardinality({u \in EligibleUsers(rtTable) : ImprovedUser(rtTable, u)})

\* C22, the failing case: one user with two tests on the first date and one
\* test thirty days later, the score decreasing, is counted twice.
C22_TwoTestsOnFirstDateCountedTwice ==
    /\ pc = "efectividadDone"
    /\ Len(rtTable) = 3
    /\ Cardinality(EligibleUsers(rtTable)) = 1
    /\ \A i \in 1..2 : rtTable[i].fecha = 0 /\ rtTable[i].ansiedad_score = Num(8)
    /\ rtTable[3].fecha = 30 /\ rtTable[3].ansiedad_score = Num(3)
    /\ efOut.total_usuarios = 2
    /\ efOut.mejoraron = Num(2)

-----------------------------------------------------------------------------
(* The retention summary on bounded tables                                 *)

\* The largest number of users.
MaxUsers == 3

\* The per-user rows of user_activity: a user created one or three months
\* ago, updated since, with or without a chat and a test.
ActivityRows ==
    {r \in [created : {1, 3}, updated : {0, 1, 2, 3},
            chat : {NULL, Num(1)}, test : {NULL, Num(2)}] :
        /\ r.updated <= r.created
        /\ r.chat # NULL => r.chat[1] <= r.created
        /\ r.test # NULL => r.test[1] <= r.created}

ActivityTables == UNION {[1..n -> ActivityRows] : n \in 0..MaxUsers}

InitRetencion ==
    /\ IdleRequest
    /\ pc = "retencion"
    /\ fnIn \in ActivityTables
    /\ fnOut = <<>> /\ fnOut2 = <<>>
    /\ muIn = <<>> /\ mtIn = <<>> /\ muOut = <<>>
    /\ maIn = <<>> /\ maOut = <<>>
    /\ rtTable = <<>> /\ efOut = NoSnapshot

\* collectRawData runs the retention query and fills the retencion field of
\* the snapshot from its result.
RetencionStep ==
    /\ pc = "retencion"
    /\ fnOut' = RetencionField(RetencionQuery(fnIn))
    /\ pc' = "retencionDone"
    /\ UNCHANGED <<poolVars, store, qi, rawData, agentSt, agentVal, calls, allSt, response, queryError>>
    /\ UNCHANGED <<agentIn, fnIn, fnOut2, monthlyVars, weeklyVars, efVars>>

NextRetencion == RetencionStep

SpecRetencion == InitRetencion /\ [][NextRetencion]_vars

\* The count of users active within two months that the summary reports.
ActivePrior ==
    IF "usuarios_activos_mes_anterior" \in DOMAIN fnOut
    THEN fnOut.usuarios_activos_mes_anterior ELSE 0

\* C11: the retention rate of the snapshot is
\* round(active-this-month / active-prior-month * 100, 1) when the prior count
\* is positive, and a defined numeric default (not null) when it is 0.
C11_RetentionRate ==
    pc = "retencionDone" =>
        IF ActivePrior > 0
        THEN fnOut.tasa_retencion =
                 Num(RoundDiv(fnOut.usuarios_activos_este_mes * 1000, ActivePrior))
        ELSE fnOut.tasa_retencion # NULL

\* C11, the failing case: users exist, none was active within two months,
\* and the rate is null.
C11_NoPriorActivityNullRate ==
    /\ pc = "retencionDone"
    /\ Len(fnIn) > 0
    /\ ActivePrior = 0
    /\ fnOut.tasa_retencion = NULL

\* C16 as claimed: there is a data store for which the reported retention
\* rate is greater than 100 (stated where the query is about to run: one of
\* the tables it may run on gives such a rate).
C16_SomeStoreExceeds100 ==
    pc = "retencion" =>
    \E tbl \in ActivityTables :
        LET r == RetencionField(RetencionQuery(tbl))
        IN  r.tasa_retencion # NULL /\ r.tasa_retencion[1] > 1000

\* C16 as amended: the retention rate is the unclamped rounded ratio of the
\* two counts, and since every user active within one month is also active
\* within two months it never exceeds 100.
C16_RetentionRateAtMost100 ==
    (pc = "retencionDone" /\ fnOut.tasa_retencion # NULL) =>
        /\ fnOut.tasa_retencion =
               Num(RoundDiv(fnOut.usuarios_activos_este_mes * 1000, ActivePrior))
        /\ fnOut.usuarios_activos_este_mes <= ActivePrior
        /\ fnOut.tasa_retencion[1] <= 1000

\* C16 witness: growth occurred (every user active within two months was
\* active within the last month, none only in the month before) and the rate
\* is exactly 100.
C16_GrowthGivesExactly100 ==
    /\ pc = "retencionDone"
    /\ fnOut.usuarios_activos_este_mes >= 2
    /\ \E i \in 1..Len(fnIn) : UltimaActividad(fnIn[i]) > 2
    /\ fnOut.tasa_retencion = Num(1000)

-----------------------------------------------------------------------------
(* The users table: new users of the month and the gender distribution     *)

\* The rows of users: created in the current calendar month, the previous
\* one or the one before, with a gender that is NULL, empty or given.
UserRows ==
    [createdMonth : {0, 1, 2},
     gender : {NULL, <<"">>, <<"Masculino">>, <<"Femenino">>}]

UserTables == UNION {[1..n -> UserRows] : n \in 0..MaxUsers}

InitUsers ==
    /\ IdleRequest
    /\ pc = "users"
    /\ fnIn \in UserTables
    /\ fnOut = <<>> /\ fnOut2 = <<>>
    /\ muIn = <<>> /\ mtIn = <<>> /\ muOut = <<>>
    /\ maIn = <<>> /\ maOut = <<>>
    /\ rtTable = <<>> /\ efOut = NoSnapshot

\* collectRawData counts the new users and fills userStats.nuevos_este_mes.
NewUsersStep ==
    /\ pc = "users"
    /\ fnOut' = [nuevos_este_mes |-> FirstTotalOrZero(NewUsersThisMonthQuery(fnIn))]
    /\ pc' = "newUsersDone"
    /\ UNCHANGED <<poolVars, store, qi, rawData, agentSt, agentVal, calls, allSt, response, queryError>>
    /\ UNCHANGED <<agentIn, fnIn, fnOut2, monthlyVars, weeklyVars, efVars>>

\* collectRawData then runs the gender query; its rows are the snapshot's
\* genderDistribution.
GenderStep ==
    /\ pc = "newUsersDone"
    /\ fnOut2' = GenderQuery(fnIn)
    /\ pc' = "genderDone"
    /\ UNCHANGED <<poolVars, store, qi, rawData, agentSt, agentVal, calls, allSt, response, queryError>>
    /\ UNCHANGED <<agentIn, fnIn, fnOut, monthlyVars, weeklyVars, efVars>>

NextUsers == NewUsersStep \/ GenderStep

SpecUsers == InitUsers /\ [][NextUsers]_vars

\* C12: the new-this-month count is the number of users created in the
\* current calendar month; a user created in the previous calendar month is
\* never counted.
C12_NewUsersOfCurrentMonth ==
    pc \in {"newUsersDone", "genderDone"} =>
        fnOut.nuevos_este_mes =
            Cardinality({i \in 1..Len(fnIn) : fnIn[i].createdMonth = 0})

\* C12, the failing case: the only user was created in the previous calendar
\* month and the count is 1.
C12_PreviousMonthUserCounted ==
    /\ pc = "newUsersDone"
    /\ Len(fnIn) = 1
    /\ fnIn[1].createdMonth = 1
    /\ fnOut.nuevos_este_mes = 1

RECURSIVE SumValues(_)

\* The sum of the value fields of a set of rows.
SumValues(rows) ==
    IF rows = {} THEN 0
    ELSE LET r == CHOOSE x \in rows : TRUE
         IN  r.value + SumValues(rows \ {r})

\* C20: users with a null gender and users with an empty gender are counted
\* together under the unspecified label, no bucket has an empty name, and the
\* bucket values sum to the number of users.
C20_GenderBuckets ==
    pc = "genderDone" =>
        LET unspecified ==
                Cardinality({i \in 1..Len(fnIn) : fnIn[i].gender \in {NULL, <<"">>}})
        IN  /\ \A r \in fnOut2 : r.name # ""
            /\ unspecified > 0 =>
                   [name |-> UnspecifiedLabel, value |-> unspecified] \in fnOut2
            /\ SumValues(fnOut2) = Len(fnIn)

\* C20, the failing case: a user with an empty gender and a user with a null
\* gender are reported in two buckets, one of them with an empty name.
C20_EmptyGenderOwnBucket ==
    /\ pc = "genderDone"
    /\ Len(fnIn) = 2
    /\ [name |-> "", value |-> 1] \in fnOut2
    /\ [name |-> UnspecifiedLabel, value |-> 1] \in fnOut2

-----------------------------------------------------------------------------
(* Two runs of the usage-pattern query on one store                        *)

\* The hours of the day that hold messages.
Hours == {9, 13, 18, 22}

InitPatrones ==
    /\ IdleRequest
    /\ pc = "patrones"
    /\ fnIn \in [Hours -> 0..MaxMsgs]
    /\ fnOut = <<>> /\ fnOut2 = <<>>
    /\ muIn = <<>> /\ mtIn = <<>> /\ muOut = <<>>
    /\ maIn = <<>> /\ maOut = <<>>
    /\ rtTable = <<>> /\ efOut = NoSnapshot

\* A first run of collectRawData fills patronesUso.
PatronesFirstRun ==
    /\ pc = "patrones"
    /\ fnOut' \in PatronesUsoResults(fnIn)
    /\ pc' = "patronesAgain"
    /\ UNCHANGED <<poolVars, store, qi, rawData, agentSt, agentVal, calls, allSt, response, queryError>>
    /\ UNCHANGED <<agentIn, fnIn, fnOut2, monthlyVars, weeklyVars, efVars>>

\* A second run on the same store at the same instant.
PatronesSecondRun ==
    /\ pc = "patronesAgain"
    /\ fnOut2' \in PatronesUsoResults(fnIn)
    /\ pc' = "patronesDone"
    /\ UNCHANGED <<poolVars, store, qi, rawData, agentSt, agentVal, calls, allSt, response, queryError>>
    /\ UNCHANGED <<agentIn, fnIn, fnOut, monthlyVars, weeklyVars, efVars>>

NextPatrones == PatronesFirstRun \/ PatronesSecondRun

SpecPatrones == InitPatrones /\ [][NextPatrones]_vars

\* C14: two runs of collectRawData on the same unchanged store at the same
\* instant return the same snapshot, also for a capped view (the top three
\* usage hours) when there are more rows than the cap or rows that tie on the
\* sort key.
C14_RunsAgree ==
    pc = "patronesDone" => fnOut = fnOut2

\* C14, the failing case: more hours than the cap, a tie at the cut, and the
\* two runs report different sets of hours.
C14_TieAtCapDifferentHours ==
    /\ pc = "patronesDone"
    /\ Len(fnOut) = TopHours
    /\ {fnOut[i].hora : i \in 1..Len(fnOut)} # {fnOut2[i].hora : i \in 1..Len(fnOut2)}

-----------------------------------------------------------------------------
(* The parse of runGeminiAgent on bounded texts                            *)

\* The largest number of tokens of a backend text.
MaxTextLen == 4

TextToks == {"FENCE", "{", "}", "other:", "s", "prose"}

Texts == UNION {[1..n -> TextToks] : n \in 0..MaxTextLen}

InitParse ==
    /\ IdleRequest
    /\ pc = "parse"
    /\ fnIn \in Texts
    /\ fnOut = <<>> /\ fnOut2 = <<>>
    /\ muIn = <<>> /\ mtIn = <<>> /\ muOut = <<>>
    /\ maIn = <<>> /\ maOut = <<>>
    /\ rtTable = <<>> /\ efOut = NoSnapshot

\* runGeminiAgent receives the text of the backend and parses it.
ParseStep ==
    /\ pc = "parse"
    /\ fnOut' = ParseAgentText(fnIn)
    /\ pc' = "parseDone"
    /\ UNCHANGED <<poolVars, store, qi, rawData, agentSt, agentVal, calls, allSt, response, queryError>>
    /\ UNCHANGED <<agentIn, fnIn, fnOut2, monthlyVars, weeklyVars, efVars>>

NextParse == ParseStep

SpecParse == InitParse /\ [][NextParse]_vars

RECURSIVE BalancedEnd(_, _, _)

\* The index of the "}" that closes the braces open at t[i] with the given
\* depth, or 0 when they are never closed.
BalancedEnd(t, i, depth) ==
    IF i > Len(t) THEN 0
    ELSE IF t[i] = "{" THEN BalancedEnd(t, i + 1, depth + 1)
    ELSE IF t[i] = "}" THEN (IF depth = 1 THEN i ELSE BalancedEnd(t, i + 1, depth - 1))
    ELSE BalancedEnd(t, i + 1, depth)

\* The first balanced brace-delimited substring of t: from the first "{" to
\* the "}" that closes it; <<>> when there is none.
FirstBalanced(t) ==
    LET opens == {i \in 1..Len(t) : t[i] = "{"}
    IN  IF opens = {} THEN <<>>
        ELSE LET f == CHOOSE i \in opens : \A k \in opens : i <= k
                 l == BalancedEnd(t, f + 1, 1)
             IN  IF l = 0 THEN <<>> ELSE SubSeq(t, f, l)

\* C15: after the removal of the fence markers the runner returns the strict
\* parse of the whole text when that succeeds; otherwise the parse of the
\* first balanced brace-delimited substring when that is valid, also when
\* further braces follow it; it fails only when both attempts fail.
C15_TwoStageParse ==
    pc = "parseDone" =>
        LET t == StripFences(fnIn)
            fb == FirstBalanced(t)
        IN  IF IsJSON(t) THEN fnOut = [ok |-> TRUE, value |-> t]
            ELSE IF fb # <<>> /\ IsJSON(fb) THEN fnOut = [ok |-> TRUE, value |-> fb]
            ELSE ~fnOut.ok

\* C15, the failing case: the first balanced substring of the text is a
\* valid object, a further brace follows it, and the runner fails.
C15_BraceAfterObjectFails ==
    /\ pc = "parseDone"
    /\ fnIn = <<"{", "}", "prose", "}">>
    /\ IsJSON(FirstBalanced(StripFences(fnIn)))
    /\ ~IsJSON(StripFences(fnIn))
    /\ ~fnOut.ok

-----------------------------------------------------------------------------
(* The anxiety-usage correlation on bounded tables                         *)

\* The CASE expression of the correlation query on a non-null integer score.
ScoreBucket(n) ==
    IF 0 <= n /\ n <= 5 THEN "0-5"
    ELSE IF 6 <= n /\ n <= 10 THEN "6-10"
    ELSE IF 11 <= n /\ n <= 15 THEN "11-15"
    ELSE IF 16 <= n /\ n <= 20 THEN "16-20"
    ELSE IF n > 20 THEN "21+"
    ELSE "No disponible"

\* The correlation query on resultados_test (tests, rows as for the
\* effectiveness query) and the number of chat messages of each user (msgs).
\* message_data has one row per user with at least one message (both joins
\* are inner joins); every test row with a non-null score of such a user is
\* joined with that user's message_count, the joined rows are grouped by the
\* bucket of the row's score and ordered by the least score of the group.
\* AVG of an integer column is a decimal with four fractional digits, given
\* here in ten-thousandths.
CorrelationQuery(tests, msgs) ==
    LET joined == {i \in 1..Len(tests) :
                      /\ tests[i].ansiedad_score # NULL
                      /\ tests[i].usuario_id \in DOMAIN msgs
                      /\ msgs[tests[i].usuario_id] > 0}
        bucket(i) == ScoreBucket(tests[i].ansiedad_score[1])
        group(i) == {j \in joined : bucket(j) = bucket(i)}
        least(i) == MinOf({tests[j].ansiedad_score[1] : j \in group(i)})
        keys == {least(i) : i \in joined}
        rowOf(key) ==
            LET i == CHOOSE j \in joined : least(j) = key
                mensajes == [j \in group(i) |-> msgs[tests[j].usuario_id]]
                suma == SumSeq([n \in 1..Cardinality(group(i)) |->
                                   mensajes[IthSmallest(group(i), n)]])
            IN  [score |-> bucket(i),
                 promedio_mensajes |-> RoundDiv(suma * 10000, Cardinality(group(i)))]
    IN  [n \in 1..Cardinality(keys) |-> rowOf(IthSmallest(keys, n))]

TestUsers == {1, 2}

InitCorrelation ==
    /\ IdleRequest
    /\ pc = "correlation"
    /\ fnIn \in [tests : TestTables, msgs : [TestUsers -> 0..MaxMsgs]]
    /\ fnOut = <<>> /\ fnOut2 = <<>>
    /\ muIn = <<>> /\ mtIn = <<>> /\ muOut = <<>>
    /\ maIn = <<>> /\ maOut = <<>>
    /\ rtTable = <<>> /\ efOut = NoSnapshot

\* collectRawData runs the correlation query; its rows are the snapshot's
\* correlationData.
CorrelationStep ==
    /\ pc = "correlation"
    /\ fnOut' = CorrelationQuery(fnIn.tests, fnIn.msgs)
    /\ pc' = "correlationDone"
    /\ UNCHANGED <<poolVars, store, qi, rawData, agentSt, agentVal, calls, allSt, response, queryError>>
    /\ UNCHANGED <<agentIn, fnIn, fnOut2, monthlyVars, weeklyVars, efVars>>

NextCorrelation == CorrelationStep

SpecCorrelation == InitCorrelation /\ [][NextCorrelation]_vars

\* The users that have messages and a test with a non-null score.
ScoredUsers(tests, msgs) ==
    {u \in DOMAIN msgs :
        /\ msgs[u] > 0
        /\ \E i \in 1..Len(tests) :
               tests[i].usuario_id = u /\ tests[i].ansiedad_score # NULL}

\* The scores of the latest tests of user u that have a non-null score.
LatestScores(tests, u) ==
    LET scored == {i \in 1..Len(tests) :
                      tests[i].usuario_id = u /\ tests[i].ansiedad_score # NULL}
        last == MaxOf({tests[i].fecha : i \in scored})
    IN  {tests[i].ansiedad_score[1] : i \in {k \in scored : tests[k].fecha = last}}

\* The sum of msgs over a set of users.
RECURSIVE SumOver(_, _)

SumOver(msgs, users) ==
    IF users = {} THEN 0
    ELSE LET u == CHOOSE x \in users : TRUE
         IN  msgs[u] + SumOver(msgs, users \ {u})

\* C21: in the anxiety-usage correlation each user contributes to exactly one
\* bucket, that of the user's latest test with a non-null score, and the mean
\* of a bucket is the arithmetic mean of the message counts of the users in
\* it; a user with several tests is not counted once per test.  (Stated for
\* the tables in which the latest scored test of every user is unique.)
C21_OneBucketPerUser ==
    pc = "correlationDone" =>
        LET tests == fnIn.tests
            msgs == fnIn.msgs
            users == ScoredUsers(tests, msgs)
            bucketOf(u) == ScoreBucket(CHOOSE n \in LatestScores(tests, u) : TRUE)
            members(b) == {u \in users : bucketOf(u) = b}
        IN  (\A u \in users : Cardinality(LatestScores(tests, u)) = 1) =>
                /\ {fnOut[i].score : i \in 1..Len(fnOut)} = {bucketOf(u) : u \in users}
                /\ \A i \in 1..Len(fnOut) :
                       fnOut[i].promedio_mensajes =
                           RoundDiv(SumOver(msgs, members(fnOut[i].score)) * 10000,
                                    Cardinality(members(fnOut[i].score)))

\* C21, the failing case: a single user with messages took a test with score
\* 8 and a later one with score 3, and is reported in both buckets.
C21_UserInTwoBuckets ==
    /\ pc = "correlationDone"
    /\ Len(fnIn.tests) = 2
    /\ fnIn.tests[1] = [usuario_id |-> 1, fecha |-> 0, ansiedad_score |-> Num(8)]
    /\ fnIn.tests[2] = [usuario_id |-> 1, fecha |-> 30, ansiedad_score |-> Num(3)]
    /\ fnIn.msgs[1] = 2
    /\ fnOut = <<[score |-> "0-5", promedio_mensajes |-> 20000],
                 [score |-> "6-10", promedio_mensajes |-> 20000]>>

-----------------------------------------------------------------------------
(* lib/db.js: concurrent executeQuery calls and the connection pool        *)

InitPool ==
    /\ IdleRequest
    /\ pc = "pool"
    /\ IdleFn
    /\ muIn = <<>> /\ mtIn = <<>> /\ muOut = <<>>
    /\ maIn = <<>> /\ maOut = <<>>
    /\ rtTable = <<>> /\ efOut = NoSnapshot

\* Mutant of GetConnection: the pool is created without the test of the
\* module variable.
GetConnectionAlwaysCreates(c) ==
    /\ createPoolRuns <= MaxCallers
    /\ createPoolRuns' = createPoolRuns + 1
    /\ pool' = createPoolRuns + 1
    /\ callerConn' = [callerConn EXCEPT ![c] = createPoolRuns + 1]

\* The body of getConnection, called by caller c.  It holds no await, so it
\* runs to its return without any other code of the process in between: the
\* test of pool, the createPool call (a pool instance is named by the number
\* of the createPool call that made it), the assignment and the return, whose
\* value settles the promise that c awaits.
GetConnection(c) ==
    /\ IF pool = NoPool
       THEN /\ pool' = createPoolRuns + 1
            /\ createPoolRuns' = createPoolRuns + 1
       ELSE UNCHANGED <<pool, createPoolRuns>>
    /\ callerConn' = [callerConn EXCEPT ![c] = pool']

\* executeQuery is called: it runs synchronously into getConnection and then
\* suspends at its first await.
ExecuteQueryEnter(c) ==
    /\ pc = "pool"
    /\ callerPc[c] = "idle"
    /\ GetConnection(c)
    /\ callerPc' = [callerPc EXCEPT ![c] = "awaiting"]
    /\ UNCHANGED <<reqVars, monthlyVars, weeklyVars, efVars, agentIn, fnVars>>

\* The await of getConnection resumes: connection.execute is called on the
\* pool the promise holds, and executeQuery suspends at its second await.
ExecuteQueryExecute(c) ==
    /\ callerPc[c] = "awaiting"
    /\ callerPc' = [callerPc EXCEPT ![c] = "executing"]
    /\ UNCHANGED <<pool, createPoolRuns, callerConn>>
    /\ UNCHANGED <<reqVars, monthlyVars, weeklyVars, efVars, agentIn, fnVars>>

\* connection.execute is fulfilled: executeQuery returns the rows.
ExecuteQueryResults(c) ==
    /\ callerPc[c] = "executing"
    /\ callerPc' = [callerPc EXCEPT ![c] = "done"]
    /\ UNCHANGED <<pool, createPoolRuns, callerConn>>
    /\ UNCHANGED <<reqVars, monthlyVars, weeklyVars, efVars, agentIn, fnVars>>

\* connection.execute is rejected: executeQuery logs the error and rethrows.
ExecuteQueryCatch(c) ==
    /\ callerPc[c] = "executing"
    /\ callerPc' = [callerPc EXCEPT ![c] = "failed"]
    /\ UNCHANGED <<pool, createPoolRuns, callerConn>>
    /\ UNCHANGED <<reqVars, monthlyVars, weeklyVars, efVars, agentIn, fnVars>>

\* The process is long-running: a finished call makes room for a later one.
ExecuteQueryLeave(c) ==
    /\ callerPc[c] \in {"done", "failed"}
    /\ callerPc' = [callerPc EXCEPT ![c] = "idle"]
    /\ callerConn' = [callerConn EXCEPT ![c] = NoPool]
    /\ UNCHANGED <<pool, createPoolRuns>>
    /\ UNCHANGED <<reqVars, monthlyVars, weeklyVars, efVars, agentIn, fnVars>>

NextPool ==
    \E c \in Callers :
        \/ ExecuteQueryEnter(c)
        \/ ExecuteQueryExecute(c)
        \/ ExecuteQueryResults(c)
        \/ ExecuteQueryCatch(c)
        \/ ExecuteQueryLeave(c)

SpecPool == InitPool /\ [][NextPool]_vars

\* C23: the pool is initialised lazily and at most once per process: under
\* every interleaving of concurrent executeQuery calls, several first calls
\* in flight together included, createPool runs at most once and every call
\* uses the same pool instance.
C23_PoolCreatedAtMostOnce ==
    /\ createPoolRuns <= 1
    /\ pool = NoPool <=> createPoolRuns = 0
    /\ pool = NoPool => \A c \in Callers : callerPc[c] = "idle"
    /\ \A c \in Callers :
           callerPc[c] # "idle" => (callerConn[c] # NoPool /\ callerConn[c] = pool)
    /\ \A c, d \in Callers :
           (callerPc[c] # "idle" /\ callerPc[d] # "idle") => callerConn[c] = callerConn[d]

\* C23 witness: two calls are suspended at the await of getConnection
\* together, having entered before any call resumed, and hold the one pool
\* that was created.
C23_FirstCallsInFlightTogether ==
    /\ \E c, d \in Callers :
           /\ c # d
           /\ callerPc[c] = "awaiting" /\ callerPc[d] = "awaiting"
           /\ callerConn[c] = callerConn[d] /\ callerConn[c] = pool
    /\ \A c \in Callers : callerPc[c] \in {"idle", "awaiting"}
    /\ createPoolRuns = 1

====
